---- MODULE Spec2Model ----
(***************************************************************************)
(* Model of the restaurant collection pipeline of backend-lahacks:        *)
(*   src/restaurant_agent.py   message-handling agent (aiohttp fetch)      *)
(*   src/restaurants_agent.py  YelpRestaurantAgent (requests fetch)        *)
(* Both agents run the same fetch -> dedup -> transform -> upsert loop    *)
(* against the shared "restaurants" table; the message-handling agent     *)
(* also updates the "users" table and answers the requester.              *)
(*                                                                         *)
(* Python dicts are records: a key is present iff it is in the record's   *)
(* DOMAIN.  Strings that the code edits (name, address lines) are         *)
(* sequences of one-character strings.                                     *)
(***************************************************************************)
EXTENDS Integers, Sequences, FiniteSets, TLC

VARIABLES
    agent,     \* which script the running process executes
    seen,      \* <agent>.seen_restaurants of the running process
    written,   \* ids whose upsert succeeded in the running process's lifetime (history)
    store,     \* rows of the "restaurants" table, in insertion order
    users,     \* rows of the "users" table, keyed by id
    outbox,    \* messages handed to ctx.send by the operation last executed
               \* (fire-and-forget: the transport has taken the earlier ones)
    now,       \* clock tick read by datetime.now(); one tick per pipeline pass
    last       \* record of the operation being completed (history); [op |-> "idle"]
               \* once it has returned to the event loop

vars == <<agent, seen, written, store, users, outbox, now, last>>

(*************************** bounds of the model ***************************)
MaxBatch == 2      \* longest `businesses` array the search API returns
MaxPasses == 2     \* pipeline passes explored (ticks of the clock)

(****************************** Python values ******************************)
None == "None"

\* dict.get(k, default)
Get(d, k, default) == IF k \in DOMAIN d THEN d[k] ELSE default

HasKey(d, k) == k \in DOMAIN d

\* outcome of a block of code: a value, or an exception raised out of it
Return(v) == [raised |-> FALSE, value |-> v]
Raise == [raised |-> TRUE]

Truthy_always(list) == TRUE

\* truth value of a list in `if restaurants:`
Truthy(list) == list # <<>>

(****************************** raw listings *******************************)
\* a well-formed listing
Joe ==
    [id |-> "a", name |-> <<"J", "/", "D">>,
     coordinates |-> [latitude |-> "34.0", longitude |-> "-118.5"],
     location |-> [display_address |-> << <<"1", "M">>, <<"S", "M">> >>],
     categories |-> <<[title |-> "Diner"], [title |-> "American"]>>,
     url |-> "http://joe", rating |-> "4.5"]

\* a listing without `coordinates`: transform_to_restaurant raises KeyError
Cafe ==
    [id |-> "b", name |-> <<"C">>,
     location |-> [city |-> "LA"],
     phone |-> "+1"]

Listings == {Joe, Cafe}

Ids == {b.id : b \in Listings}

\* the `businesses` arrays the search API can return
Batches == UNION {[1..n -> Listings] : n \in 0..MaxBatch}

(******************************* the agents ********************************)
MsgAgent == "restaurant_agent"       \* src/restaurant_agent.py
YelpAgent == "YelpRestaurantAgent"   \* src/restaurants_agent.py
Agents == {MsgAgent, YelpAgent}

UserIds == {"u1", "u2"}    \* identifying tokens carried by requests
UserRows == {"u1"}         \* ids that have a row in the users table
Senders == {"test_agent"}

(******************************** Fetcher **********************************)
\* HTTP statuses the search API or a proxy in front of it can answer with
Statuses == {200, 201, 204, 404, 429, 500}

Bodies ==
    {[json |-> FALSE]}
    \cup {[json |-> TRUE, data |-> [total |-> 0]]}
    \cup {[json |-> TRUE, data |-> [businesses |-> b]] : b \in Batches}

\* what the HTTP GET can produce: a transport failure or a response
Responses ==
    {[failed |-> TRUE]}
    \cup {[failed |-> FALSE, status |-> s, body |-> b] : s \in Statuses, b \in Bodies}

\* response.json(): raises when the body is not JSON
Json(body) == IF body.json THEN Return(body.data) ELSE Raise

\* body of the try block of search_restaurants, aiohttp variant
FetchAio(resp) ==
    IF resp.failed THEN Raise
    ELSE IF resp.status = 200
         THEN LET data == Json(resp.body)
              IN  IF data.raised THEN Raise
                  ELSE Return(Get(data.value, "businesses", <<>>))
         ELSE Return(<<>>)

\* response.raise_for_status(): HTTPError for 4xx and 5xx only
RaiseForStatus(status) == 400 <= status /\ status < 600

\* body of the try block of search_restaurants, requests variant
FetchRequests(resp) ==
    IF resp.failed THEN Raise
    ELSE IF RaiseForStatus(resp.status) THEN Raise
    ELSE LET data == Json(resp.body)
         IN  IF data.raised THEN Raise
             ELSE Return(Get(data.value, "businesses", <<>>))

\* `except Exception: log; return []` around the try block
SearchRestaurants(ag, resp) ==
    LET o == IF ag = MsgAgent THEN FetchAio(resp) ELSE FetchRequests(resp)
    IN  IF o.raised THEN Return(<<>>) ELSE o

(******************************* Normalizer ********************************)
\* str.replace("/", " ")
Replace(s) == [i \in DOMAIN s |-> IF s[i] = "/" THEN " " ELSE s[i]]

\* ', '.join(lines)
RECURSIVE Join(_)
Join(lines) ==
    IF lines = <<>> THEN <<>>
    ELSE IF Len(lines) = 1 THEN lines[1]
    ELSE lines[1] \o <<",", " ">> \o Join(Tail(lines))

\* the subscript accesses of transform_to_restaurant that raise KeyError
TransformRaises(b) ==
    \/ \E i \in DOMAIN Get(b, "categories", <<>>) : ~HasKey(b.categories[i], "title")
    \/ ~HasKey(b, "name")
    \/ ~HasKey(b, "coordinates")
    \/ ~HasKey(b.coordinates, "latitude")
    \/ ~HasKey(b.coordinates, "longitude")
    \/ ~HasKey(b, "location")

Transform(b, t) ==
    LET cats == Get(b, "categories", <<>>)
        cuisines == [i \in DOMAIN cats |-> cats[i].title]
    IN  [name |-> Replace(b.name),
         location |-> <<b.coordinates.latitude, b.coordinates.longitude>>,
         address |-> Join(Get(b.location, "display_address", <<>>)),
         link |-> Get(b, "url", None),
         cuisine |-> cuisines,
         main_cuisine |-> IF cuisines # <<>> THEN cuisines[1] ELSE "Unknown",
         phone |-> Get(b, "phone", None),
         rating |-> Get(b, "rating", None),
         price |-> Get(b, "price", None),
         image_url |-> Get(b, "image_url", None),
         review_count |-> Get(b, "review_count", None),
         transactions |-> Get(b, "transactions", <<>>),
         yelp_id |-> Get(b, "id", None),
         created_at |-> t,
         updated_at |-> t]

TransformToRestaurant(b, t) ==
    IF TransformRaises(b) THEN Raise ELSE Return(Transform(b, t))

(********************************* Store ***********************************)
RowIds(rows) == {rows[i].yelp_id : i \in DOMAIN rows}

Upsert_insert(rows, r) == Append(rows, r)

Upsert_merge(rows, r) ==
    IF r.yelp_id \in RowIds(rows)
    THEN [i \in DOMAIN rows |->
            IF rows[i].yelp_id = r.yelp_id
            THEN [r EXCEPT !.created_at = rows[i].created_at]
            ELSE rows[i]]
    ELSE Append(rows, r)

\* table('restaurants').upsert(r, on_conflict='yelp_id'): replace the row
\* with the same yelp_id, insert when there is none
Upsert(rows, r) ==
    IF r.yelp_id \in RowIds(rows)
    THEN [i \in DOMAIN rows |-> IF rows[i].yelp_id = r.yelp_id THEN r ELSE rows[i]]
    ELSE Append(rows, r)

\* table('users').update({...}).eq('id', uid): rows with that id only
UpdateUser(tbl, uid, restaurants) ==
    [u \in DOMAIN tbl |->
        IF u = uid
        THEN [restaurants_found |-> TRUE, restaurants |-> restaurants]
        ELSE tbl[u]]


(************************** Deduplicator + Writer **************************)
IsSeen_never(id, s) == FALSE

\* `business['id'] not in seen_restaurants`, negated
IsSeen(id, s) == id \in s

ContinueAfter_abort(raised) == ~raised

\* the try/except sits inside the for loop: the loop goes on to the next
\* listing whether or not this one raised
ContinueAfter(raised) == TRUE

StoreReturn_count(count) == <<count>>

\* What the batch writer hands back to its caller, as the sequence of values
\* returned: store_restaurants / collect_restaurants have no return
\* statement, so nothing (Python's None) whatever was written.
StoreReturn(count) == <<>>

\* One iteration of the loop body, on the writer state
\*   st = [seen, written, store, visits, raised].
\* fail: whether the store layer raises on this listing's upsert.
\* Each visit is logged with the outcome of the iteration.
StoreOne(st, b, pos, fail, t) ==
    LET visit(outcome) ==
            Append(st.visits, [pos |-> pos, id |-> Get(b, "id", None), outcome |-> outcome])
    IN  IF ~HasKey(b, "id")
        THEN [st EXCEPT !.visits = visit("id_raised"), !.raised = TRUE]
        ELSE IF IsSeen(b.id, st.seen)
        THEN [st EXCEPT !.visits = visit("skipped"), !.raised = FALSE]
        ELSE LET seen1 == st.seen \cup {b.id}
                 data == TransformToRestaurant(b, t)
             IN  IF data.raised
                 THEN [st EXCEPT !.seen = seen1, !.visits = visit("transform_raised"),
                                 !.raised = TRUE]
                 ELSE IF fail
                 THEN [st EXCEPT !.seen = seen1, !.visits = visit("upsert_raised"),
                                 !.raised = TRUE]
                 ELSE [st EXCEPT !.seen = seen1, !.visits = visit("stored"),
                                 !.raised = FALSE,
                                 !.written = @ \cup {b.id},
                                 !.store = Upsert(@, data.value)]

\* for business in restaurants: try: ... except Exception: log
\* The result's `raised` tells whether an exception left the loop.
RECURSIVE StoreLoop(_, _, _, _, _)
StoreLoop(st, restaurants, pos, fails, t) ==
    IF pos > Len(restaurants) THEN [st EXCEPT !.raised = FALSE]
    ELSE LET st1 == StoreOne(st, restaurants[pos], pos, pos \in fails, t)
         IN  IF ContinueAfter(st1.raised)
             THEN StoreLoop(st1, restaurants, pos + 1, fails, t)
             ELSE st1

\* store_restaurants(ctx, restaurants) / the loop of collect_restaurants
StoreRestaurants(restaurants, fails, t) ==
    StoreLoop([seen |-> seen, written |-> written, store |-> store,
               visits |-> <<>>, raised |-> FALSE],
              restaurants, 1, fails, t)

\* positions of the visits with one of the given outcomes
Visits(visits, outcomes) == {i \in DOMAIN visits : visits[i].outcome \in outcomes}

(******************************* operations ********************************)
Idle == [op |-> "idle"]

NoRequest == [user_id |-> None, sender |-> None]

Snapshot == [seen |-> seen, written |-> written, store |-> store, users |-> users]

Init ==
    /\ agent \in Agents
    /\ seen = {}
    /\ written = {}
    /\ store = <<>>
    /\ users = [u \in UserRows |-> [restaurants_found |-> FALSE, restaurants |-> <<>>]]
    /\ outbox = <<>>
    /\ now = 0
    /\ last = Idle

\* handle_location_request(ctx, sender, msg), the whole handler.
\*   restaurants  what search_restaurants returned for msg.location
\*   userFails    whether the users-table update raises
\*   fails        positions of the batch whose upsert raises in the store layer
HandleLocationRequest(sender, uid, restaurants, userFails, fails) ==
    LET t == now + 1
        w == StoreRestaurants(restaurants, fails, t)
        base == [op |-> "handle_location_request", agent |-> agent,
                 request |-> [user_id |-> uid, sender |-> sender],
                 restaurants |-> restaurants, pre |-> Snapshot,
                 fails |-> fails]
    IN  /\ agent = MsgAgent
        /\ last = Idle
        /\ now < MaxPasses
        /\ now' = t
        /\ UNCHANGED agent
        /\ IF ~Truthy(restaurants)
           THEN \* else branch: log "No restaurants found"
                /\ last' = base @@ [events |-> <<>>, visits |-> <<>>, ret |-> <<>>]
                /\ outbox' = <<>>
                /\ UNCHANGED <<seen, written, store, users>>
           ELSE IF userFails
           THEN \* the update raised: the rest of the try block is skipped
                /\ last' = base @@ [events |-> <<"user_update_raised">>,
                                    visits |-> <<>>, ret |-> <<>>]
                /\ outbox' = <<>>
                /\ UNCHANGED <<seen, written, store, users>>
           ELSE /\ users' = UpdateUser(users, uid, restaurants)
                /\ seen' = w.seen
                /\ written' = w.written
                /\ store' = w.store
                /\ IF w.raised
                   THEN \* an exception out of store_restaurants skips the send
                        /\ outbox' = <<>>
                        /\ last' = base @@ [events |-> <<"user_update", "store_raised">>,
                                            visits |-> w.visits, ret |-> <<>>]
                   ELSE /\ outbox' = <<[to |-> sender, restaurants |-> restaurants,
                                        user_id |-> uid]>>
                        /\ last' = base @@ [events |-> <<"user_update", "store", "send">>,
                                            visits |-> w.visits,
                                            ret |-> StoreReturn(Cardinality(
                                                        Visits(w.visits, {"stored"})))]

\* collect_restaurants(ctx, location), called by scheduled_collection for each
\* of its locations; the location only selects what the search API answers.
CollectRestaurants(restaurants, fails) ==
    LET t == now + 1
        w == StoreRestaurants(restaurants, fails, t)
    IN  /\ agent = YelpAgent
        /\ last = Idle
        /\ now < MaxPasses
        /\ now' = t
        /\ seen' = w.seen
        /\ written' = w.written
        /\ store' = w.store
        /\ outbox' = <<>>
        /\ last' = [op |-> "collect_restaurants", agent |-> agent, request |-> NoRequest,
                    restaurants |-> restaurants, pre |-> Snapshot, fails |-> fails,
                    events |-> IF w.raised THEN <<"store_raised">> ELSE <<"store">>,
                    visits |-> w.visits,
                    ret |-> StoreReturn(Cardinality(Visits(w.visits, {"stored"})))]
        /\ UNCHANGED <<agent, users>>

\* the process ends and script ag is started: module level / __init__ set
\* seen_restaurants = set(); the tables live on in the store
Restart(ag) ==
    /\ last = Idle
    /\ agent' = ag
    /\ seen' = {}
    /\ written' = {}
    /\ outbox' = <<>>
    /\ last' = [op |-> "restart", agent |-> ag]
    /\ UNCHANGED <<store, users, now>>

\* the operation returns to the event loop, which hands the sent messages to
\* the transport
Finish ==
    /\ last # Idle
    /\ last' = Idle
    /\ outbox' = <<>>
    /\ UNCHANGED <<agent, seen, written, store, users, now>>

\* what search_restaurants of script ag can return, over all the responses
FetchResults == [ag \in Agents |-> {SearchRestaurants(ag, resp).value : resp \in Responses}]

\* the store-layer failures a batch can meet
FailSets(restaurants) == SUBSET DOMAIN restaurants

Next ==
    \/ \E sender \in Senders, uid \in UserIds, restaurants \in FetchResults[MsgAgent] :
          \/ \E fails \in FailSets(restaurants) :
                HandleLocationRequest(sender, uid, restaurants, FALSE, fails)
          \/ HandleLocationRequest(sender, uid, restaurants, TRUE, {})
    \/ \E restaurants \in FetchResults[YelpAgent] : \E fails \in FailSets(restaurants) :
            CollectRestaurants(restaurants, fails)
    \/ \E ag \in Agents : Restart(ag)
    \/ Finish

Spec == Init /\ [][Next]_vars

(***************** the fetcher alone, over every response ******************)
\* search_restaurants(ctx, location) of the running script, on response resp
Search(resp) ==
    /\ last' = [op |-> "search_restaurants", agent |-> agent, response |-> resp,
                result |-> SearchRestaurants(agent, resp)]
    /\ UNCHANGED <<agent, seen, written, store, users, outbox, now>>

NextFetch == \E resp \in Responses : Search(resp)

SpecFetch == Init /\ [][NextFetch]_vars

(******************************** claims ***********************************)
\* the operation being completed is a pipeline pass
IsPass == last.op \in {"handle_location_request", "collect_restaurants"}

IsHandle == last.op = "handle_location_request"

\* the batch of the pass was handed to the batch writer
LoopRan == IsPass /\ (\E i \in DOMAIN last.events : last.events[i] \in {"store", "store_raised"})

\* positions of the batch that hold a listing with this external id
Occurrences(id) == {i \in DOMAIN last.restaurants : last.restaurants[i].id = id}

\* ids that occur at two positions of the batch or more
Duplicated == {id \in Ids : Cardinality(Occurrences(id)) >= 2}

\* positions of the batch where the store's upsert was called for this id
UpsertCalls(id) ==
    {i \in Visits(last.visits, {"stored", "upsert_raised"}) : last.visits[i].id = id}

First(S) == CHOOSE i \in S : \A j \in S : i <= j

\* the ids in SeenSet when position i of the batch is reached
SeenBefore(i) == last.pre.seen \cup {last.restaurants[j].id : j \in 1..(i - 1)}

\* the rows of a table that carry this external id
RowsOf(rows, id) == {i \in DOMAIN rows : rows[i].yelp_id = id}

\* C1 as stated: a batch handed to the batch writer with two listings of the
\* same external id gets exactly one upsert for that id, whatever the outcome
\* of normalizing or storing either listing.
C1_ExactlyOneUpsert ==
    LoopRan => \A id \in Duplicated : Cardinality(UpsertCalls(id)) = 1

\* C1 amended: for an external id that occurs twice or more in a batch, the
\* upsert is called at most once during the batch: once (at the first
\* occurrence) when the id was not in SeenSet at the start of the batch and
\* normalizing the first occurrence succeeds, and not at all otherwise.
C1_AtMostOneUpsert ==
    LoopRan =>
        \A id \in Duplicated :
            UpsertCalls(id) =
                IF id \notin last.pre.seen
                   /\ ~TransformRaises(last.restaurants[First(Occurrences(id))])
                THEN {First(Occurrences(id))}
                ELSE {}

C1_Witness ==
    /\ LoopRan
    /\ \E id \in Duplicated : Cardinality(UpsertCalls(id)) = 1

\* C2: a failure on one listing never aborts the batch: every listing is
\* visited, in input order, and every listing whose id is unseen when it is
\* reached and whose own transform and upsert succeed is stored, with the
\* record normalized from it in this pass.
C2_FailureDoesNotAbort ==
    LoopRan =>
        /\ Len(last.visits) = Len(last.restaurants)
        /\ \A i \in DOMAIN last.visits :
              /\ last.visits[i].pos = i
              /\ last.visits[i].id = last.restaurants[i].id
              /\ ( /\ last.restaurants[i].id \notin SeenBefore(i)
                   /\ ~TransformRaises(last.restaurants[i])
                   /\ i \notin last.fails )
                 => /\ last.visits[i].outcome = "stored"
                    /\ \E r \in RowsOf(store, last.restaurants[i].id) :
                          store[r] = Transform(last.restaurants[i], now)

C2_Witness ==
    /\ LoopRan
    /\ \E i, j \in DOMAIN last.visits :
          /\ i < j
          /\ last.visits[i].outcome \in {"transform_raised", "upsert_raised"}
          /\ last.visits[j].outcome = "stored"

\* C3 as stated: the batch writer returns the number of listings of the batch
\* whose upsert succeeded.
C3_ReturnsCount ==
    LoopRan => last.ret = <<Cardinality(Visits(last.visits, {"stored"}))>>

\* C3 amended: the batch writer returns nothing, whatever number of listings
\* it stored.
C3_ReturnsNothing ==
    LoopRan => last.ret = <<>>

C3_Witness ==
    /\ LoopRan
    /\ Cardinality(Visits(last.visits, {"stored"})) = 1
    /\ Cardinality(Visits(last.visits, {"transform_raised"})) = 1
    /\ last.ret = <<>>

\* C4: the fetcher never raises; on status 200 it returns the `businesses`
\* array (the empty list when there is none), on every other status and on
\* every transport failure the empty list.
C4_FetchContract ==
    last.op = "search_restaurants" =>
        LET resp == last.response IN
        /\ ~last.result.raised
        /\ last.result.value =
              IF ~resp.failed /\ resp.status = 200 /\ resp.body.json
              THEN Get(resp.body.data, "businesses", <<>>)
              ELSE <<>>

\* C5: every id in SeenSet has had a successful upsert in the lifetime of the
\* running process.
C5_SeenOnlyWritten == seen \subseteq written

\* the ids of the batch none of whose occurrences can raise in this pass
Untroubled ==
    {id \in Ids : /\ Occurrences(id) # {}
                  /\ \A i \in Occurrences(id) :
                        ~TransformRaises(last.restaurants[i]) /\ i \notin last.fails}

\* C6 as stated: on every pass, second and later ones included, every listing
\* the fetch returned is normalized afresh and upserted, so that the stored
\* record with its id is this pass's record (read for the listings that
\* neither fail to normalize nor meet a store-layer error).
C6_FreshOnEveryPass ==
    LoopRan =>
        \A id \in Untroubled :
            \E r \in RowsOf(store, id) :
                store[r] = Transform(last.restaurants[First(Occurrences(id))], now)

\* C6 amended: a pass normalizes and upserts a listing only when its id is not
\* in SeenSet; a successful upsert leaves, as the stored record with that id,
\* exactly the record normalized in this pass.  A listing whose id is in
\* SeenSet (every listing fetched again later in the same process) is skipped
\* and the stored records with its id stay as they were.
C6_FreshOnlyWhenUnseen ==
    IsPass =>
        \A id \in Ids :
            /\ \A i \in Visits(last.visits, {"stored"}) :
                  last.visits[i].id = id =>
                      /\ id \notin last.pre.seen
                      /\ \A r \in RowsOf(store, id) :
                            store[r] = Transform(last.restaurants[i], now)
                      /\ RowsOf(store, id) # {}
            /\ id \in last.pre.seen =>
                  /\ UpsertCalls(id) = {}
                  /\ \A i \in DOMAIN last.visits :
                        last.visits[i].id = id => last.visits[i].outcome = "skipped"
                  /\ [r \in RowsOf(store, id) |-> store[r]]
                        = [r \in RowsOf(last.pre.store, id) |-> last.pre.store[r]]

C6_Witness ==
    /\ LoopRan
    /\ \E id \in last.pre.written :
          /\ Occurrences(id) # {}
          /\ \A i \in Occurrences(id) : last.visits[i].outcome = "skipped"
          /\ \E r \in RowsOf(store, id) : store[r].updated_at < now

\* C7: the response to a location request whose fetch was not empty carries
\* the normalized batch (for each fetched listing that can be normalized, its
\* canonical record, with main_cuisine, address, ...) and the user_id of the
\* request.
C7_ResponseIsNormalized ==
    IsHandle =>
        \A k \in DOMAIN outbox :
            /\ outbox[k].user_id = last.request.user_id
            /\ Len(outbox[k].restaurants) = Len(last.restaurants)
            /\ \A i \in DOMAIN outbox[k].restaurants :
                  ~TransformRaises(last.restaurants[i]) =>
                      /\ HasKey(outbox[k].restaurants[i], "main_cuisine")
                      /\ HasKey(outbox[k].restaurants[i], "address")
                      /\ outbox[k].restaurants[i].main_cuisine
                            = Transform(last.restaurants[i], now).main_cuisine

\* C8: a location request whose fetch returns the empty list gets no
\* response, and handling it updates no user record, upserts nothing and
\* leaves SeenSet as it was.
C8_EmptyFetchIsSilent ==
    (IsHandle /\ last.restaurants = <<>>) =>
        /\ outbox = <<>>
        /\ users = last.pre.users
        /\ store = last.pre.store
        /\ seen = last.pre.seen
        /\ last.events = <<>>
        /\ last.visits = <<>>

C8_Witness ==
    /\ IsHandle
    /\ last.restaurants = <<>>
    /\ last.request.user_id \in UserRows
    /\ store # <<>>

\* C9: the restaurants table never holds two records with the same external
\* id, whatever passes and restarts came before.
C9_OneRecordPerId ==
    \A i, j \in DOMAIN store : store[i].yelp_id = store[j].yelp_id => i = j

\* an id stored before a restart is stored again after it
C9_Witness ==
    /\ IsPass
    /\ \E i \in Visits(last.visits, {"stored"}) :
          /\ last.visits[i].id \in RowIds(last.pre.store)
          /\ last.visits[i].id \notin last.pre.seen
          /\ Cardinality(RowsOf(store, last.visits[i].id)) = 1

\* C10: for a request whose fetch is not empty the handler updates the user
\* record, then runs the batch writer, then sends the response.  When the
\* update fails nothing is upserted, SeenSet is unchanged and no response is
\* sent; when it succeeds the response is sent whatever the listings of the
\* batch met in the writer.
C10_UpdateThenStoreThenSend ==
    (IsHandle /\ last.restaurants # <<>>) =>
        \/ /\ last.events = <<"user_update_raised">>
           /\ last.visits = <<>>
           /\ users = last.pre.users
           /\ store = last.pre.store
           /\ seen = last.pre.seen
           /\ outbox = <<>>
        \/ /\ last.events = <<"user_update", "store", "send">>
           /\ users = UpdateUser(last.pre.users, last.request.user_id, last.restaurants)
           /\ Len(last.visits) = Len(last.restaurants)
           /\ Len(outbox) = 1
           /\ outbox[1].to = last.request.sender

C10_Witness ==
    /\ IsHandle
    /\ last.events = <<"user_update", "store", "send">>
    /\ Visits(last.visits, {"transform_raised", "upsert_raised"}) # {}
    /\ Len(outbox) = 1

====
